---- MODULE Spec2Model ----
(***************************************************************************)
(* Model of the constraint-validation and violation-escalation layer of    *)
(* src/constraints/constraints.c.                                          *)
(*                                                                         *)
(* Every execution context (the main loop, and in SpecConc an interrupt    *)
(* handler that preempts it) owns a call stack of frames.  A frame holds   *)
(* the function, the position inside it, and its arguments.  Each function *)
(* of constraints.c is one action that executes the statement at the       *)
(* frame's position.  log / calls / returns / reports / escalations record *)
(* what an observer of the program sees: the lines LogHandler printed, the *)
(* API calls made, the values handed back to the API's callers, and the    *)
(* entries into ReportViolation and ErrorHandler.                          *)
(***************************************************************************)
EXTENDS Integers, Sequences, FiniteSets, TLC

VARIABLES stack, rv, log, calls, returns, reports, escalations

vars == <<stack, rv, log, calls, returns, reports, escalations>>

\* ---------------------------------------------------------------- bounds
\* Number of API calls the callers make in one run.
MaxCalls == 2

\* ------------------------------------------------------ program constants
SYS_CLK_MIN_HZ == 80000000
SYS_CLK_MAX_HZ == 200000000
RAM_START_ADDR == 536870912
RAM_SIZE_BYTES == 131072
RAM_END_ADDR == RAM_START_ADDR + RAM_SIZE_BYTES - 1

CONSTRAINT_ID_SYS_CLK_RANGE == 1
CONSTRAINT_ID_RAM_ACCESS_OOB == 2
CONSTRAINT_ID_SENSOR_TIMEOUT == 3
CONSTRAINT_ID_COMM_BUFFER_FULL == 4

\* uint32_t arguments are modelled as integers.  The code only compares them
\* (unsigned) with constants below 2^30 and never does arithmetic on them, so
\* every value above the largest constant behaves alike; the largest argument
\* the callers pass here is 2^31 - 1, the largest integer TLC represents.
LargestInput == 2^30 + (2^30 - 1)

\* ------------------------------------------------------ execution contexts
Ctx == {"main", "isr"}

\* Argument values the callers pass: the boundaries of each range, their
\* neighbours, zero and the largest representable value.
ClockInputs == {0, SYS_CLK_MIN_HZ - 1, SYS_CLK_MIN_HZ, SYS_CLK_MIN_HZ + 1000,
                SYS_CLK_MAX_HZ, SYS_CLK_MAX_HZ + 1, LargestInput}
RamInputs == {0, RAM_START_ADDR - 1, RAM_START_ADDR, RAM_END_ADDR,
              RAM_END_ADDR + 1, LargestInput}
IdInputs == {0, CONSTRAINT_ID_SYS_CLK_RANGE, CONSTRAINT_ID_RAM_ACCESS_OOB,
             CONSTRAINT_ID_SENSOR_TIMEOUT, CONSTRAINT_ID_COMM_BUFFER_FULL,
             5, 255, LargestInput}

\* ------------------------------------------------------------ stack helpers
Frame(fn, pc, cid, arg, fmt, args) ==
    [fn |-> fn, pc |-> pc, cid |-> cid, arg |-> arg, fmt |-> fmt, args |-> args]

Top(c) == stack[c][Len(stack[c])]

At(c, fn) == stack[c] # <<>> /\ Top(c).fn = fn

\* The statement the top frame of c executes next moves on to position pc.
Goto(c, pc) ==
    stack' = [stack EXCEPT ![c] = [@ EXCEPT ![Len(@)] = [@ EXCEPT !.pc = pc]]]

\* The top frame of c moves on to position pc and calls fr.
GotoCall(c, pc, fr) ==
    stack' = [stack EXCEPT
                ![c] = Append([@ EXCEPT ![Len(@)] = [@ EXCEPT !.pc = pc]], fr)]

\* The top frame of c returns val (<<>> for a void function).  A frame at the
\* bottom of the stack returns to the caller of the API.
Return(c, val) ==
    LET s == stack[c]
        n == Len(s)
    IN /\ stack' = [stack EXCEPT ![c] = SubSeq(s, 1, n - 1)]
       /\ rv' = IF val = <<>> THEN rv ELSE [rv EXCEPT ![c] = val[1]]
       /\ returns' = IF n = 1
                     THEN Append(returns, [cid |-> s[n].cid, val |-> val])
                     ELSE returns

\* An interrupt handler preempts the main loop: the main loop executes only
\* while no interrupt handler is active.
CanRun(c) == c = "isr" \/ stack["isr"] = <<>>

Halted ==
    \E c \in Ctx : At(c, "ErrorHandler") /\ Top(c).pc = "halt"

\* ---------------------------------------------------------------- logging
\* by: the function that calls LogHandler; fmt, args, str: the format of the
\* message, its numeric arguments and its %s argument ("" when it has none).
LogHandler(by, cid, level, fmt, args, str) ==
    log' = Append(log, [level |-> level, by |-> by, cid |-> cid,
                        fmt |-> fmt, args |-> args, str |-> str])

\* ------------------------------------------------------------- predicates
\* Variant: the upper bound taken as exclusive.
ClockInBounds_ExclusiveMax(freq_hz) ==
    ~(freq_hz < SYS_CLK_MIN_HZ \/ freq_hz >= SYS_CLK_MAX_HZ)

ClockInBounds(freq_hz) ==
    ~(freq_hz < SYS_CLK_MIN_HZ \/ freq_hz > SYS_CLK_MAX_HZ)

RamInBounds(address) ==
    ~(address < RAM_START_ADDR \/ address > RAM_END_ADDR)

\* Variant: the sensor timeout classified as fatal too.
IsFatal_WithSensor(constraint_id) ==
    \/ constraint_id = CONSTRAINT_ID_SYS_CLK_RANGE
    \/ constraint_id = CONSTRAINT_ID_RAM_ACCESS_OOB
    \/ constraint_id = CONSTRAINT_ID_SENSOR_TIMEOUT

IsFatal(constraint_id) ==
    \/ constraint_id = CONSTRAINT_ID_SYS_CLK_RANGE
    \/ constraint_id = CONSTRAINT_ID_RAM_ACCESS_OOB

\* Variant: identifier 0 falls into the sensor case.
ResourceCase_ZeroIsSensor(resource_id) ==
    CASE resource_id = CONSTRAINT_ID_SENSOR_TIMEOUT \/ resource_id = 0 -> "sensor"
      [] resource_id = CONSTRAINT_ID_COMM_BUFFER_FULL -> "comm_buffer"
      [] OTHER -> "default"

\* The switch of CheckCriticalResource: the case label resource_id selects.
ResourceCase(resource_id) ==
    CASE resource_id = CONSTRAINT_ID_SENSOR_TIMEOUT -> "sensor"
      [] resource_id = CONSTRAINT_ID_COMM_BUFFER_FULL -> "comm_buffer"
      [] OTHER -> "default"

\* Variant: the self-test value taken below the lower bound.
SelfTestFreq_BelowMin == SYS_CLK_MIN_HZ - 1000

\* The value Init's self-test validates.
SelfTestFreq == SYS_CLK_MIN_HZ + 1000

\* ------------------------------------------------------------------- Init
Init ==
    /\ stack = [c \in Ctx |-> <<>>]
    /\ rv = [c \in Ctx |-> FALSE]
    /\ log = <<>>
    /\ calls = <<>>
    /\ returns = <<>>
    /\ reports = <<>>
    /\ escalations = <<>>

\* ------------------------------------------------------- callers of the API
Invoke(c, fn, arg, fmt) ==
    /\ CanRun(c)
    /\ stack[c] = <<>>
    /\ Len(calls) < MaxCalls
    /\ calls' = Append(calls, [fn |-> fn, arg |-> arg, ctx |-> c])
    /\ stack' = [stack EXCEPT
                   ![c] = <<Frame(fn, "entry", Len(calls) + 1, arg, fmt, <<>>)>>]

Call_Init(c) ==
    /\ Invoke(c, "Init", 0, "")
    /\ UNCHANGED <<rv, log, returns, reports, escalations>>

Call_ValidateClockFrequency(c) ==
    \E freq_hz \in ClockInputs :
        /\ Invoke(c, "ValidateClockFrequency", freq_hz, "")
        /\ UNCHANGED <<rv, log, returns, reports, escalations>>

Call_ValidateRamAddress(c) ==
    \E address \in RamInputs :
        /\ Invoke(c, "ValidateRamAddress", address, "")
        /\ UNCHANGED <<rv, log, returns, reports, escalations>>

Call_CheckCriticalResource(c) ==
    \E resource_id \in IdInputs :
        /\ Invoke(c, "CheckCriticalResource", resource_id, "")
        /\ UNCHANGED <<rv, log, returns, reports, escalations>>

Call_ReportViolation(c) ==
    \E constraint_id \in IdInputs :
        /\ Invoke(c, "ReportViolation", constraint_id, "caller message")
        /\ reports' = Append(reports, [id |-> constraint_id,
                                       cid |-> Len(calls) + 1, from |-> "caller"])
        /\ UNCHANGED <<rv, log, returns, escalations>>

\* --------------------------------------------------------- constraints.c
\* Variant: the handler leaves its loop and returns to ReportViolation.
ErrorHandler_Returns(c) ==
    /\ CanRun(c)
    /\ At(c, "ErrorHandler")
    /\ LET fr == Top(c) IN
       IF fr.pc = "entry"
       THEN /\ LogHandler("ErrorHandler", fr.cid, "FATAL", fr.fmt, <<>>, "")
            /\ Goto(c, "halt")
            /\ UNCHANGED <<rv, calls, returns, reports, escalations>>
       ELSE /\ Return(c, <<>>)
            /\ UNCHANGED <<log, calls, reports, escalations>>

\* Variant: the handler halts without logging.
ErrorHandler_NoLog(c) ==
    /\ CanRun(c)
    /\ At(c, "ErrorHandler")
    /\ LET fr == Top(c) IN
       IF fr.pc = "entry"
       THEN /\ Goto(c, "halt")
            /\ UNCHANGED <<rv, log, calls, returns, reports, escalations>>
       ELSE UNCHANGED vars

ErrorHandler(c) ==
    /\ CanRun(c)
    /\ At(c, "ErrorHandler")
    /\ LET fr == Top(c) IN
       IF fr.pc = "entry"
       THEN /\ LogHandler("ErrorHandler", fr.cid, "FATAL", fr.fmt, <<>>, "")
            /\ Goto(c, "halt")
            /\ UNCHANGED <<rv, calls, returns, reports, escalations>>
       ELSE \* while (true) { }
            UNCHANGED vars

ConstraintsManager_ReportViolation(c) ==
    /\ CanRun(c)
    /\ At(c, "ReportViolation")
    /\ LET fr == Top(c) IN
       CASE fr.pc = "entry" ->
              /\ LogHandler("ReportViolation", fr.cid, "ERROR",
                            "Violation ID 0x%02lX: %s",
                            <<fr.arg>> \o fr.args, fr.fmt)
              /\ Goto(c, "classify")
              /\ UNCHANGED <<rv, calls, returns, reports, escalations>>
         [] fr.pc = "classify" ->
              IF IsFatal(fr.arg)
              THEN /\ GotoCall(c, "return",
                         Frame("ErrorHandler", "entry", fr.cid, fr.arg,
                               "Critical constraint violation. System halted.",
                               <<>>))
                   /\ escalations' = Append(escalations,
                                            [id |-> fr.arg, cid |-> fr.cid])
                   /\ UNCHANGED <<rv, log, calls, returns, reports>>
              ELSE /\ Return(c, <<>>)
                   /\ UNCHANGED <<log, calls, reports, escalations>>
         [] OTHER ->
              /\ Return(c, <<>>)
              /\ UNCHANGED <<log, calls, reports, escalations>>

ConstraintsManager_ValidateClockFrequency(c) ==
    /\ CanRun(c)
    /\ At(c, "ValidateClockFrequency")
    /\ LET fr == Top(c) IN
       CASE fr.pc = "entry" ->
              IF ~ClockInBounds(fr.arg)
              THEN /\ GotoCall(c, "return_false",
                         Frame("ReportViolation", "entry", fr.cid,
                               CONSTRAINT_ID_SYS_CLK_RANGE,
                               "Clock frequency %lu Hz is out of bounds [%lu - %lu] Hz.",
                               <<fr.arg, SYS_CLK_MIN_HZ, SYS_CLK_MAX_HZ>>))
                   /\ reports' = Append(reports,
                                        [id |-> CONSTRAINT_ID_SYS_CLK_RANGE,
                                         cid |-> fr.cid,
                                         from |-> "ValidateClockFrequency"])
                   /\ UNCHANGED <<rv, log, calls, returns, escalations>>
              ELSE /\ Return(c, <<TRUE>>)
                   /\ UNCHANGED <<log, calls, reports, escalations>>
         [] OTHER ->
              /\ Return(c, <<FALSE>>)
              /\ UNCHANGED <<log, calls, reports, escalations>>

ConstraintsManager_ValidateRamAddress(c) ==
    /\ CanRun(c)
    /\ At(c, "ValidateRamAddress")
    /\ LET fr == Top(c) IN
       CASE fr.pc = "entry" ->
              IF ~RamInBounds(fr.arg)
              THEN /\ GotoCall(c, "return_false",
                         Frame("ReportViolation", "entry", fr.cid,
                               CONSTRAINT_ID_RAM_ACCESS_OOB,
                               "Memory access 0x%08lX is outside RAM range [0x%08lX - 0x%08lX].",
                               <<fr.arg, RAM_START_ADDR, RAM_END_ADDR>>))
                   /\ reports' = Append(reports,
                                        [id |-> CONSTRAINT_ID_RAM_ACCESS_OOB,
                                         cid |-> fr.cid,
                                         from |-> "ValidateRamAddress"])
                   /\ UNCHANGED <<rv, log, calls, returns, escalations>>
              ELSE /\ Return(c, <<TRUE>>)
                   /\ UNCHANGED <<log, calls, reports, escalations>>
         [] OTHER ->
              /\ Return(c, <<FALSE>>)
              /\ UNCHANGED <<log, calls, reports, escalations>>

ConstraintsManager_CheckCriticalResource(c) ==
    /\ CanRun(c)
    /\ At(c, "CheckCriticalResource")
    /\ LET fr == Top(c) IN
       CASE fr.pc = "entry" /\ ResourceCase(fr.arg) = "sensor" ->
              /\ LogHandler("CheckCriticalResource", fr.cid, "INFO",
                            "Sensor check OK.", <<>>, "")
              /\ Goto(c, "return_true")
              /\ UNCHANGED <<rv, calls, returns, reports, escalations>>
         [] fr.pc = "entry" /\ ResourceCase(fr.arg) = "comm_buffer" ->
              /\ LogHandler("CheckCriticalResource", fr.cid, "INFO",
                            "Communication buffer check OK.", <<>>, "")
              /\ Goto(c, "return_true")
              /\ UNCHANGED <<rv, calls, returns, reports, escalations>>
         [] fr.pc = "entry" /\ ResourceCase(fr.arg) = "default" ->
              /\ LogHandler("CheckCriticalResource", fr.cid, "WARN",
                            "Unknown resource ID 0x%02lX for check.", <<fr.arg>>,
                            "")
              /\ Goto(c, "return_false")
              /\ UNCHANGED <<rv, calls, returns, reports, escalations>>
         [] fr.pc = "return_true" ->
              /\ Return(c, <<TRUE>>)
              /\ UNCHANGED <<log, calls, reports, escalations>>
         [] OTHER ->
              /\ Return(c, <<FALSE>>)
              /\ UNCHANGED <<log, calls, reports, escalations>>

ConstraintsManager_Init(c) ==
    /\ CanRun(c)
    /\ At(c, "Init")
    /\ LET fr == Top(c) IN
       CASE fr.pc = "entry" ->
              /\ LogHandler("Init", fr.cid, "INFO",
                            "Constraints module initialized.", <<>>, "")
              /\ Goto(c, "selftest")
              /\ UNCHANGED <<rv, calls, returns, reports, escalations>>
         [] fr.pc = "selftest" ->
              /\ GotoCall(c, "selftest_result",
                    Frame("ValidateClockFrequency", "entry", fr.cid,
                          SelfTestFreq, "", <<>>))
              /\ UNCHANGED <<rv, log, calls, returns, reports, escalations>>
         [] fr.pc = "selftest_result" ->
              /\ IF ~rv[c]
                 THEN LogHandler("Init", fr.cid, "WARN",
                                 "Initial clock frequency might be out of range.",
                                 <<>>, "")
                 ELSE log' = log
              /\ Goto(c, "return_true")
              /\ UNCHANGED <<rv, calls, returns, reports, escalations>>
         [] OTHER ->
              /\ Return(c, <<TRUE>>)
              /\ UNCHANGED <<log, calls, reports, escalations>>

\* ------------------------------------------------------------ specifications
Step(c) ==
    \/ Call_Init(c)
    \/ Call_ValidateClockFrequency(c)
    \/ Call_ValidateRamAddress(c)
    \/ Call_CheckCriticalResource(c)
    \/ Call_ReportViolation(c)
    \/ ConstraintsManager_Init(c)
    \/ ConstraintsManager_ValidateClockFrequency(c)
    \/ ConstraintsManager_ValidateRamAddress(c)
    \/ ConstraintsManager_CheckCriticalResource(c)
    \/ ConstraintsManager_ReportViolation(c)
    \/ ErrorHandler(c)

\* The single-threaded model the subsystem is written for: only the main
\* loop calls the API.
Next == Step("main")

Spec == Init /\ [][Next]_vars

\* The processor keeps executing the main loop's next statement.
FairSpec == Spec /\ WF_vars(Next)

\* The API is also called from an interrupt handler that preempts the main
\* loop at any statement.
NextConc == \E c \in Ctx : Step(c)

SpecConc == Init /\ [][NextConc]_vars


\* ------------------------------------------------------- observation helpers
\* The k-th API call's log lines, reporter entries, escalations and returns.
LogOf(k) == SelectSeq(log, LAMBDA e : e.cid = k)
ReportsOf(k) == SelectSeq(reports, LAMBDA r : r.cid = k)
EscalationsOf(k) == SelectSeq(escalations, LAMBDA e : e.cid = k)
ReturnsOf(k) == SelectSeq(returns, LAMBDA r : r.cid = k)
Levels(k, level) == {i \in DOMAIN LogOf(k) : LogOf(k)[i].level = level}

\* The k-th call is still executing (its frame is at the bottom of a stack).
Active(k) == \E c \in Ctx : stack[c] # <<>> /\ stack[c][1].cid = k
Done(k) == k \in DOMAIN calls /\ ~Active(k)
\* The frames of the k-th call above its own (the calls it has made).
Depth(k) ==
    IF Active(k)
    THEN Len(stack[CHOOSE c \in Ctx : stack[c] # <<>> /\ stack[c][1].cid = k])
    ELSE 0
\* The k-th call sits in ErrorHandler's loop and can never return.
HaltedIn(k) ==
    \E c \in Ctx : At(c, "ErrorHandler") /\ Top(c).pc = "halt" /\ Top(c).cid = k
ReturnedWith(k, val) == ReturnsOf(k) = <<[cid |-> k, val |-> val]>>

\* ------------------------------------------------------------------ claims

\* C1: a validate_clock_frequency call with freq_hz < 80000000 or
\* freq_hz > 200000000 returns false to its caller (so it never ends in the
\* non-returning halt loop) and makes exactly one call into the Violation
\* Reporter, with identifier 0x01.
C1_OutOfRangeClockReturnsInvalid ==
    \A k \in DOMAIN calls :
        (/\ calls[k].fn = "ValidateClockFrequency"
         /\ (calls[k].arg < 80000000 \/ calls[k].arg > 200000000))
        => /\ ~HaltedIn(k)
           /\ Len(ReportsOf(k)) <= 1
           /\ \A i \in DOMAIN ReportsOf(k) : ReportsOf(k)[i].id = 1
           /\ Done(k) => /\ ReturnedWith(k, <<FALSE>>)
                         /\ Len(ReportsOf(k)) = 1

\* C2: report_violation first emits exactly one ERROR entry carrying the
\* identifier; it invokes the Escalation Handler with that identifier and
\* never returns iff the identifier is 0x01 or 0x02; with any other
\* identifier it returns, the system is not halted and no FATAL entry exists.
C2_ReportViolationPolicy ==
    \A k \in DOMAIN calls :
        calls[k].fn = "ReportViolation" =>
        LET id == calls[k].arg
            L == LogOf(k)
        IN /\ Cardinality(Levels(k, "ERROR")) <= 1
           /\ L # <<>> => /\ L[1].level = "ERROR"
                          /\ L[1].by = "ReportViolation"
                          /\ L[1].args[1] = id
           /\ \A i \in DOMAIN EscalationsOf(k) :
                  /\ EscalationsOf(k)[i].id = id
                  /\ Cardinality(Levels(k, "ERROR")) = 1
           /\ id \in {1, 2} =>
                  /\ ReturnsOf(k) = <<>>
                  /\ Depth(k) = 1 =>
                         (\E c \in Ctx : /\ stack[c] # <<>>
                                         /\ stack[c][1].cid = k
                                         /\ stack[c][1].pc \in {"entry", "classify"})
                  /\ Depth(k) > 1 => Len(EscalationsOf(k)) = 1
                  /\ Active(k)
           /\ id \notin {1, 2} =>
                  /\ EscalationsOf(k) = <<>>
                  /\ Levels(k, "FATAL") = {}
                  /\ ~HaltedIn(k)
                  /\ Depth(k) <= 1
                  /\ Done(k) => /\ ReturnedWith(k, <<>>)
                                /\ Len(L) = 1

C2_Witness ==
    \E k1, k2 \in DOMAIN calls :
        /\ calls[k1].fn = "ReportViolation" /\ calls[k1].arg = 3
        /\ ReturnedWith(k1, <<>>)
        /\ calls[k2].fn = "ReportViolation" /\ calls[k2].arg = 2
        /\ HaltedIn(k2)

\* C3: every validate_clock_frequency, validate_ram_address and
\* check_critical_resource call that returns false has called
\* report_violation, and every WARN, ERROR or FATAL entry of such a call is
\* written by the Violation Reporter or the Escalation Handler, never by the
\* validator or the health checker itself.
C3_EveryFailureIsReported ==
    \A k \in DOMAIN calls :
        calls[k].fn \in {"ValidateClockFrequency", "ValidateRamAddress",
                         "CheckCriticalResource"}
        => /\ \A i \in DOMAIN ReturnsOf(k) :
                  ReturnsOf(k)[i].val = <<FALSE>> => ReportsOf(k) # <<>>
           /\ \A i \in DOMAIN LogOf(k) :
                  LogOf(k)[i].level \in {"WARN", "ERROR", "FATAL"}
                  => LogOf(k)[i].by \in {"ReportViolation", "ErrorHandler"}

\* C4: the system leaves Operational only by ErrorHandler being entered from
\* ReportViolation with identifier 0x01 or 0x02, and from Halted no step
\* changes anything: it stays Halted, nothing returns, nothing is logged and
\* no call starts.
C4_Step ==
    /\ Halted => /\ Halted'
                 /\ UNCHANGED <<stack, rv, log, calls, returns, reports,
                                escalations>>
    /\ (~Halted /\ Halted') =>
           \E c \in Ctx :
               LET s == stack'[c]
                   n == Len(s)
               IN /\ n >= 2
                  /\ s[n].fn = "ErrorHandler" /\ s[n].pc = "halt"
                  /\ s[n].arg \in {1, 2}
                  /\ s[n - 1].fn = "ReportViolation"
                  /\ s[n - 1].arg = s[n].arg
                  /\ reports # <<>>
                  /\ reports[Len(reports)].id = s[n].arg

C4_OneWayHalt == [][C4_Step]_vars

C4_Witness ==
    /\ Halted
    /\ Len(calls) = 2
    /\ Len(returns) = 1

\* C5: validate_ram_address returns true for every address in
\* [0x20000000, 0x2001FFFF] and returns false for 0x1FFFFFFF and 0x20020000
\* (so none of these calls ends in the non-returning halt loop).
C5_RamWindow ==
    \A k \in DOMAIN calls :
        calls[k].fn = "ValidateRamAddress" =>
        /\ (calls[k].arg >= 536870912 /\ calls[k].arg <= 537001983)
           => /\ ~HaltedIn(k)
              /\ Done(k) => ReturnedWith(k, <<TRUE>>)
        /\ calls[k].arg \in {536870911, 537001984}
           => /\ ~HaltedIn(k)
              /\ Done(k) => ReturnedWith(k, <<FALSE>>)

\* C6: a validate_clock_frequency call with 80000000 <= freq_hz <= 200000000
\* returns true, calls neither the Violation Reporter nor anything else,
\* writes no log entry and does not halt the system.
C6_InRangeClockIsValid ==
    \A k \in DOMAIN calls :
        (/\ calls[k].fn = "ValidateClockFrequency"
         /\ calls[k].arg >= 80000000 /\ calls[k].arg <= 200000000)
        => /\ ReportsOf(k) = <<>>
           /\ EscalationsOf(k) = <<>>
           /\ LogOf(k) = <<>>
           /\ ~HaltedIn(k)
           /\ Depth(k) <= 1
           /\ Done(k) => ReturnedWith(k, <<TRUE>>)

C6_Witness ==
    \E k1, k2 \in DOMAIN calls :
        /\ calls[k1].fn = "ValidateClockFrequency" /\ calls[k1].arg = 80000000
        /\ ReturnedWith(k1, <<TRUE>>)
        /\ calls[k2].fn = "ValidateClockFrequency" /\ calls[k2].arg = 200000000
        /\ ReturnedWith(k2, <<TRUE>>)

\* C7: a check_critical_resource call with an identifier other than 0x03 and
\* 0x04 never returns true: it returns false after exactly one log entry, a
\* WARN, without entering the Violation Reporter or the Escalation Handler and
\* without halting, whatever call came before it.
C7_UnknownResourceIsUnhealthy ==
    \A k \in DOMAIN calls :
        (calls[k].fn = "CheckCriticalResource" /\ calls[k].arg \notin {3, 4})
        => /\ \A i \in DOMAIN ReturnsOf(k) : ReturnsOf(k)[i].val = <<FALSE>>
           /\ EscalationsOf(k) = <<>>
           /\ ReportsOf(k) = <<>>
           /\ ~HaltedIn(k)
           /\ Depth(k) <= 1
           /\ Len(LogOf(k)) <= 1
           /\ \A i \in DOMAIN LogOf(k) : LogOf(k)[i].level = "WARN"
           /\ Done(k) => /\ ReturnedWith(k, <<FALSE>>)
                         /\ Len(LogOf(k)) = 1

C7_Witness ==
    /\ Len(calls) = 2
    /\ Len(returns) = 2
    /\ calls[1].fn = "CheckCriticalResource" /\ calls[1].arg = 3
    /\ calls[2].fn = "CheckCriticalResource" /\ calls[2].arg = 1
    /\ ReturnedWith(2, <<FALSE>>)

\* C8: whenever the system is Halted, the halting call's last two log entries
\* are the ERROR entry carrying the violation identifier followed by the FATAL
\* entry; and a FATAL entry anywhere in the log directly follows the ERROR
\* entry of the same call.
C8_SurfacedBeforeHalt ==
    /\ \A c \in Ctx :
           (At(c, "ErrorHandler") /\ Top(c).pc = "halt") =>
           LET L == LogOf(Top(c).cid)
               n == Len(L)
           IN /\ n >= 2
              /\ L[n - 1].level = "ERROR"
              /\ L[n - 1].args[1] = Top(c).arg
              /\ L[n].level = "FATAL"
              /\ log[Len(log)] = L[n]
              /\ log[Len(log) - 1] = L[n - 1]
    /\ \A i \in DOMAIN log :
           log[i].level = "FATAL" =>
           /\ i > 1
           /\ log[i - 1].level = "ERROR"
           /\ log[i - 1].cid = log[i].cid
           /\ Halted

C8_Witness ==
    /\ Halted
    /\ Len(log) >= 3
    /\ log[Len(log)].level = "FATAL"
    /\ log[Len(log) - 1].args[1] = 2

\* C9: with fatal violations reported from two execution contexts, the halt
\* sequence is entered by at most one of them: the log holds at most one
\* FATAL entry and ErrorHandler is entered at most once.
C9_HaltEnteredOnce ==
    /\ Cardinality({i \in DOMAIN log : log[i].level = "FATAL"}) <= 1
    /\ Len(escalations) <= 1

\* What holds of an init call at every point of its execution.
C10_InitSafe ==
    \A k \in DOMAIN calls :
        calls[k].fn = "Init"
        => /\ ReportsOf(k) = <<>>
           /\ EscalationsOf(k) = <<>>
           /\ Levels(k, "WARN") = {}
           /\ Levels(k, "ERROR") = {}
           /\ Levels(k, "FATAL") = {}
           /\ Cardinality(Levels(k, "INFO")) <= 1
           /\ ~HaltedIn(k)
           /\ \A c \in Ctx : \A i \in DOMAIN stack[c] :
                  (stack[c][i].cid = k /\ stack[c][i].fn = "ValidateClockFrequency")
                  => stack[c][i].arg = 80001000
           /\ Done(k) => /\ ReturnedWith(k, <<TRUE>>)
                         /\ Len(LogOf(k)) = 1
                         /\ LogOf(k)[1].level = "INFO"

\* C10: every init call terminates and returns true, with exactly one log
\* entry, an INFO, and without a WARN entry, a call into the Violation Reporter
\* or the Escalation Handler; its self-test validates 80001000, inside the
\* clock bounds; it never halts the system.
C10_InitTerminatesTrue ==
    /\ []C10_InitSafe
    /\ \A k \in 1..MaxCalls :
           (k \in DOMAIN calls /\ calls[k].fn = "Init")
               ~> (k \in DOMAIN calls /\ ReturnedWith(k, <<TRUE>>))

C10_Witness ==
    /\ Len(calls) = 2
    /\ calls[1].fn = "ReportViolation"
    /\ calls[2].fn = "Init"
    /\ ReturnedWith(2, <<TRUE>>)

====
